---- MODULE Spec2Model ----
(***************************************************************************)
(* Model of path_reconstructor/log_sequences.py: bounded shortest-path     *)
(* search, candidate filtering, the event loop of reconstruct_path and the *)
(* precision / recall evaluation.                                          *)
(***************************************************************************)
EXTENDS Integers, Sequences, FiniteSets, TLC

VARIABLES g, logs, source, reconstruction, i, kinds, pc, output,
          call, ret,
          real, reconstructed, m, precision, recall

vars == <<g, logs, source, reconstruction, i, kinds, pc, output,
          call, ret, real, reconstructed, m, precision, recall>>

-----------------------------------------------------------------------------
(* Bounds of the model *)

MaxEdges == 4
MaxLogs == 3
MaxPathLen == 3
MaxRef == 3
MaxRec == 3

(* Program constants *)

K == 7
CandidateCap == 10

Nodes == {"A", "B", "C"}
GAP == " "
EvalNodes == {"A", "B", GAP}

Seqs(S, n) == UNION {[1..k -> S] : k \in 0..n}
Graphs == {E \in SUBSET (Nodes \X Nodes) : Cardinality(E) <= MaxEdges}
Range(s) == {s[k] : k \in 1..Len(s)}
Min(S) == CHOOSE x \in S : \A y \in S : x <= y
Max(S) == CHOOSE x \in S : \A y \in S : x >= y
Last(s) == s[Len(s)]

-----------------------------------------------------------------------------
(* Graph queries (networkx.DiGraph built from an edge list) *)

GNodes(E) == {e[1] : e \in E} \cup {e[2] : e \in E}

to_undirected(E) == E \cup {<<e[2], e[1]>> : e \in E}

SimplePaths(E, s, t) ==
    {p \in UNION {[1..n -> GNodes(E)] : n \in 1..Cardinality(GNodes(E))} :
        /\ p[1] = s
        /\ p[Len(p)] = t
        /\ \A a, b \in 1..Len(p) : a # b => p[a] # p[b]
        /\ \A a \in 1..(Len(p) - 1) : <<p[a], p[a + 1]>> \in E}

RECURSIVE SortByLength(_)
SortByLength(S) ==
    IF S = {} THEN <<>>
    ELSE LET p == CHOOSE q \in S : \A r \in S : Len(q) <= Len(r)
         IN  <<p>> \o SortByLength(S \ {p})

\* nx.shortest_simple_paths: raises when an endpoint is not a node of the
\* graph or when no path exists, otherwise generates the simple paths by
\* ascending length (a path from a node to itself is the one-node path).
shortest_simple_paths(E, s, t) ==
    IF s \notin GNodes(E) \/ t \notin GNodes(E)
    THEN [raised |-> TRUE, paths |-> <<>>]
    ELSE IF SimplePaths(E, s, t) = {}
         THEN [raised |-> TRUE, paths |-> <<>>]
         ELSE [raised |-> FALSE, paths |-> SortByLength(SimplePaths(E, s, t))]

islice(s, k) == IF Len(s) > k THEN SubSeq(s, 1, k) ELSE s

k_shortest_paths(E, s, t) ==
    LET r == shortest_simple_paths(E, s, t)
    IN  IF r.raised THEN << <<>> >> ELSE islice(r.paths, K)

cap_candidates(paths) ==
    IF Len(paths) > CandidateCap THEN SubSeq(paths, 1, CandidateCap) ELSE paths

-----------------------------------------------------------------------------
(* cut_executed_nodes *)

cut_executed_nodes(E, path) ==
    LET found == {k \in 1..Len(path) :
                     cap_candidates(k_shortest_paths(E, path[k], Last(path))) # <<>>}
    IN  IF found = {}
        THEN [aborted |-> TRUE, path |-> <<>>]
        ELSE [aborted |-> FALSE, path |-> SubSeq(path, Min(found), Len(path))]

-----------------------------------------------------------------------------
(* is_path_direct *)

\* sources of the first loop: e[1] of every in-edge (u, node), i.e. node
\* itself, once per in-edge.
in_edge_heads(E, node) == {e[2] : e \in {f \in E : f[2] = node}}
out_edge_heads(E, node) == {e[2] : e \in {f \in E : f[1] = node}}

\* 0-based index, as in the source
dir_change_index(E, path) ==
    LET changes == {k \in 0..(Len(path) - 2) :
                       path[k + 2] \notin in_edge_heads(E, path[k + 1])}
    IN  IF changes = {} THEN 0 ELSE Max(changes)

is_path_direct(E, path) ==
    LET d == dir_change_index(E, path)
    IN  IF \E k \in 0..(Len(path) - 2 - d) :
               path[k + 2] \notin out_edge_heads(E, path[d + k + 1])
        THEN <<>>
        ELSE SubSeq(path, d + 1, Len(path))

-----------------------------------------------------------------------------
(* find_execution_path *)

\* Case 2 loop: "for p in paths" appends to the list it iterates over, so the
\* appended suffixes are visited too.
RECURSIVE scan_undirected(_, _, _)
scan_undirected(E, paths, k) ==
    IF k > Len(paths) THEN paths
    ELSE LET short_path == is_path_direct(E, paths[k])
         IN  scan_undirected(E,
                 IF short_path # <<>> THEN Append(paths, short_path) ELSE paths,
                 k + 1)

interior(path) ==
    IF Len(path) <= 2 THEN {} ELSE {path[k] : k \in 2..(Len(path) - 1)}

clean_paths_unfiltered(paths, logged_nodes) == paths

clean_paths(paths, logged_nodes) ==
    SelectSeq(paths, LAMBDA p : interior(p) \cap logged_nodes = {})

\* The set of possible results, one per outcome of random.choice.
find_execution_path(E, U, node1, node2, last_dif_node, logged_nodes) ==
    IF node1 = node2 /\ node2 \in out_edge_heads(E, node1)
    THEN {[path |-> <<node1, node2>>, is_direct |-> TRUE, aborted |-> FALSE]}
    ELSE
    LET start == IF node1 = node2 THEN last_dif_node ELSE node1
        direct == cap_candidates(k_shortest_paths(E, start, node2))
        is_direct == direct # <<>>
        paths == IF is_direct THEN direct
                 ELSE scan_undirected(E, k_shortest_paths(U, start, node2), 1)
        cleaned_paths == clean_paths(paths, logged_nodes)
    IN  IF cleaned_paths = <<>>
        THEN {[path |-> <<>>, is_direct |-> is_direct, aborted |-> FALSE]}
        ELSE IF is_direct
        THEN {[path |-> cleaned_paths[k], is_direct |-> TRUE, aborted |-> FALSE] :
                 k \in 1..Len(cleaned_paths)}
        ELSE {[path |-> cut_executed_nodes(E, cleaned_paths[k]).path,
               is_direct |-> FALSE,
               aborted |-> cut_executed_nodes(E, cleaned_paths[k]).aborted] :
                 k \in 1..Len(cleaned_paths)}

find_last_dif(nodes, new_node) ==
    LET dif == {k \in 1..Len(nodes) : nodes[k] # new_node}
    IN  IF dif = {} THEN new_node ELSE nodes[Max(dif)]

-----------------------------------------------------------------------------
(* reconstruct_path *)

drop_first(path) == IF path = <<>> THEN <<>> ELSE Tail(path)

extend_without_fallback(nodes, new_path, node) ==
    IF new_path # <<>> THEN nodes \o new_path ELSE nodes

extend(nodes, new_path, node) ==
    IF new_path # <<>> THEN nodes \o new_path ELSE Append(nodes, node)

\* history of how each element of the accumulator was appended
extend_kinds(ks, new_path) ==
    IF new_path # <<>> THEN ks \o [k \in 1..Len(new_path) |-> "segment"]
    ELSE Append(ks, "fallback")

NoCall == [fn |-> "none", undirected |-> FALSE, src |-> "", dst |-> "",
           path |-> <<>>, last_dif |-> "", logged |-> {}]
NoRet == [paths |-> <<>>, path |-> <<>>, is_direct |-> TRUE, aborted |-> FALSE]
NoMatch == [matched |-> <<>>, r_index |-> 0]
NoValue == [kind |-> "none", num |-> 0, den |-> 0]

Init ==
    /\ g \in Graphs
    /\ source \in Nodes
    /\ logs \in Seqs(Nodes, MaxLogs)
    /\ reconstruction = <<source>>
    /\ kinds = <<"seed">>
    /\ i = 0
    /\ pc = "loop"
    /\ output = <<>>
    /\ call = NoCall /\ ret = NoRet
    /\ real = <<>> /\ reconstructed = <<>> /\ m = NoMatch
    /\ precision = NoValue /\ recall = NoValue

\* One iteration of "for node in logs" (lines 154-161).
ProcessEvent ==
    /\ pc = "loop"
    /\ i < Len(logs)
    /\ LET node == logs[i + 1]
           last_dif_node == find_last_dif(reconstruction, node)
       IN  \E r \in find_execution_path(g, to_undirected(g), Last(reconstruction),
                                        node, last_dif_node, Range(logs)) :
             IF r.aborted
             THEN /\ pc' = "exit"
                  /\ UNCHANGED <<reconstruction, kinds, i>>
             ELSE /\ reconstruction' = extend(reconstruction, drop_first(r.path), node)
                  /\ kinds' = extend_kinds(kinds, drop_first(r.path))
                  /\ i' = i + 1
                  /\ pc' = pc
    /\ UNCHANGED <<g, logs, source, output, call, ret, real, reconstructed, m,
                   precision, recall>>

\* "return reconstruction[1:]" (line 162).
Return ==
    /\ pc = "loop"
    /\ i = Len(logs)
    /\ output' = Tail(reconstruction)
    /\ pc' = "done"
    /\ UNCHANGED <<g, logs, source, reconstruction, i, kinds, call, ret, real,
                   reconstructed, m, precision, recall>>

Next == ProcessEvent \/ Return

Spec == Init /\ [][Next]_vars

-----------------------------------------------------------------------------
(* Properties of reconstruct_path, checked under Spec *)

RECURSIVE IsSubsequence(_, _)
IsSubsequence(a, b) ==
    IF a = <<>> THEN TRUE
    ELSE IF b = <<>> THEN FALSE
    ELSE IF Head(a) = Head(b) THEN IsSubsequence(Tail(a), Tail(b))
    ELSE IsSubsequence(a, Tail(b))

IsLogged(x) == x \in Range(logs)

\* C1: after each processed event the accumulator has grown by at least one
\* element and ends with that event; the returned output is at least as long
\* as the log sequence and contains it as a subsequence.
C1_LogIsSubsequenceOfOutput ==
    /\ Len(reconstruction) >= i + 1
    /\ i > 0 => Last(reconstruction) = logs[i]
    /\ IsSubsequence(SubSeq(logs, 1, i), Tail(reconstruction))
    /\ pc = "done" => /\ Len(output) >= Len(logs)
                      /\ IsSubsequence(logs, output)

C1_Witness ==
    /\ pc = "done"
    /\ Len(logs) >= 2
    /\ Len(output) > Len(logs)
    /\ \E k \in 1..Len(kinds) : kinds[k] = "fallback"

\* C2: every adjacent pair (x, y) of the accumulator is a directed edge x -> y
\* of the call graph, or y was appended by the fallback branch.
C2_AdjacentPairsAreEdgesOrFallback ==
    \A k \in 1..(Len(reconstruction) - 1) :
        \/ <<reconstruction[k], reconstruction[k + 1]>> \in g
        \/ kinds[k + 1] = "fallback"

\* C10: the logged nodes of the accumulator (seed excluded) are exactly the
\* processed events, in order; at return the logged nodes of the output are
\* exactly the log sequence.
C10_LoggedNodesOfOutputAreTheLogs ==
    /\ SelectSeq(Tail(reconstruction), IsLogged) = SubSeq(logs, 1, i)
    /\ pc = "done" => SelectSeq(output, IsLogged) = logs

C10_Witness ==
    /\ pc = "done"
    /\ Len(logs) >= 2
    /\ \E k \in 1..Len(output) : ~IsLogged(output[k])
    /\ \E a, b \in 1..Len(logs) : logs[a] # logs[b]

-----------------------------------------------------------------------------
(* match_reconstruction, get_true_positive, evaluate_precision / _recall *)

\* body of the loop "for node in real" (lines 177-183); st.r_index is 0-based
match_step_emit_reconstructed(st, rec, node) ==
    IF st.r_index = Len(rec)
    THEN [matched |-> Append(st.matched, GAP), r_index |-> st.r_index]
    ELSE IF node = rec[st.r_index + 1]
    THEN [matched |-> Append(st.matched, node), r_index |-> st.r_index + 1]
    ELSE [matched |-> Append(st.matched, rec[st.r_index + 1]),
          r_index |-> st.r_index]

match_step(st, rec, node) ==
    IF st.r_index = Len(rec)
    THEN [matched |-> Append(st.matched, GAP), r_index |-> st.r_index]
    ELSE IF node = rec[st.r_index + 1]
    THEN [matched |-> Append(st.matched, node), r_index |-> st.r_index + 1]
    ELSE [matched |-> Append(st.matched, GAP), r_index |-> st.r_index]

RECURSIVE match_from(_, _, _)
match_from(st, rest, rec) ==
    IF rest = <<>> THEN st
    ELSE match_from(match_step(st, rec, Head(rest)), Tail(rest), rec)

match_reconstruction(rl, rec) == match_from(NoMatch, rl, rec).matched

\* matched[index] raises IndexError when matched is shorter than real
get_true_positive(rl, matched) ==
    IF Len(matched) < Len(rl)
    THEN [kind |-> "IndexError", count |-> 0]
    ELSE [kind |-> "value",
          count |-> Cardinality({k \in 1..Len(rl) : rl[k] = matched[k]})]

\* "/" raises ZeroDivisionError on a zero denominator; nothing catches it
divide(tp, den) ==
    IF tp.kind # "value" THEN [kind |-> tp.kind, num |-> 0, den |-> 0]
    ELSE IF den = 0 THEN [kind |-> "ZeroDivisionError", num |-> tp.count, den |-> 0]
    ELSE [kind |-> "value", num |-> tp.count, den |-> den]

evaluate_precision(rl, rec) ==
    divide(get_true_positive(rl, match_reconstruction(rl, rec)), Len(rec))

evaluate_recall(rl, matched) ==
    divide(get_true_positive(rl, matched), Len(matched))

InitEval ==
    /\ real \in Seqs(EvalNodes, MaxRef)
    /\ reconstructed \in Seqs(EvalNodes, MaxRec)
    /\ m = NoMatch
    /\ precision = NoValue /\ recall = NoValue
    /\ pc = "match"
    /\ call = NoCall /\ ret = NoRet
    /\ g = {} /\ logs = <<>> /\ source = "" /\ reconstruction = <<>>
    /\ i = 0 /\ kinds = <<>> /\ output = <<>>

MatchStep ==
    /\ pc = "match"
    /\ Len(m.matched) < Len(real)
    /\ m' = match_step(m, reconstructed, real[Len(m.matched) + 1])
    /\ UNCHANGED <<g, logs, source, reconstruction, i, kinds, pc, output,
                   call, ret, real, reconstructed, precision, recall>>

MatchReturn ==
    /\ pc = "match"
    /\ Len(m.matched) = Len(real)
    /\ pc' = "evaluate"
    /\ UNCHANGED <<g, logs, source, reconstruction, i, kinds, output,
                   call, ret, real, reconstructed, m, precision, recall>>

EvaluatePrecision ==
    /\ pc = "evaluate"
    /\ precision = NoValue
    /\ precision' = evaluate_precision(real, reconstructed)
    /\ UNCHANGED <<g, logs, source, reconstruction, i, kinds, pc, output,
                   call, ret, real, reconstructed, m, recall>>

\* evaluate_recall takes the matched sequence from its caller: the result of
\* match_reconstruction, or an empty sequence
EvaluateRecall ==
    /\ pc = "evaluate"
    /\ recall = NoValue
    /\ \E mt \in {m.matched, <<>>} :
         /\ call' = [NoCall EXCEPT !.fn = "evaluate_recall", !.path = mt]
         /\ recall' = evaluate_recall(real, mt)
    /\ UNCHANGED <<g, logs, source, reconstruction, i, kinds, pc, output,
                   ret, real, reconstructed, m, precision>>

NextEval == MatchStep \/ MatchReturn \/ EvaluatePrecision \/ EvaluateRecall

SpecEval == InitEval /\ [][NextEval]_vars

\* C3: the matched sequence ends with the length of the reference, each of
\* its slots is the reference node at that position or the gap marker, and
\* the pointer into the reconstructed sequence never exceeds its length.
C3_MatchedHasReferenceLength ==
    /\ Len(m.matched) <= Len(real)
    /\ pc = "evaluate" => Len(m.matched) = Len(real)
    /\ \A k \in 1..Len(m.matched) : m.matched[k] \in {real[k], GAP}
    /\ m.r_index <= Len(reconstructed)
    /\ m.r_index <= Len(m.matched)

C3_Witness ==
    /\ pc = "evaluate"
    /\ Len(real) = 3
    /\ m.r_index = Len(reconstructed)
    /\ m.r_index = 2
    /\ m.matched[2] = GAP /\ real[2] # GAP

\* C4: a defined precision is at most 1 and the recall of the matched
\* sequence is at most 1: the true positives exceed neither the length of the
\* reconstructed sequence nor the length of the matched sequence.
C4_PrecisionAndRecallAtMostOne ==
    precision.kind = "value" =>
        /\ precision.num <= Len(reconstructed)
        /\ precision.num <= Len(m.matched)

\* C5: precision of an empty reconstructed sequence, and recall of an empty
\* matched sequence, end in an explicit evaluation error.
C5_ZeroDenominatorIsEvaluationError ==
    /\ (precision # NoValue /\ reconstructed = <<>>) =>
           precision.kind = "EvaluationError"
    /\ (recall # NoValue /\ call.path = <<>>) =>
           recall.kind = "EvaluationError"

-----------------------------------------------------------------------------
(* The search functions applied to bounded inputs *)

InitSearch ==
    /\ g \in Graphs
    /\ call = NoCall /\ ret = NoRet
    /\ pc = "search"
    /\ logs = <<>> /\ source = "" /\ reconstruction = <<>>
    /\ i = 0 /\ kinds = <<>> /\ output = <<>>
    /\ real = <<>> /\ reconstructed = <<>> /\ m = NoMatch
    /\ precision = NoValue /\ recall = NoValue

\* every call is applied once to the drawn graph
Untouched ==
    /\ pc' = "returned"
    /\ UNCHANGED <<g, logs, source, reconstruction, i, kinds, output,
                   real, reconstructed, m, precision, recall>>

Call_k_shortest_paths ==
    /\ pc = "search"
    /\ \E s, t \in Nodes, und \in BOOLEAN :
         /\ call' = [NoCall EXCEPT !.fn = "k_shortest_paths", !.undirected = und,
                                   !.src = s, !.dst = t]
         /\ ret' = [NoRet EXCEPT !.paths =
                       k_shortest_paths(IF und THEN to_undirected(g) ELSE g, s, t)]
    /\ Untouched

Call_is_path_direct ==
    /\ pc = "search"
    /\ \E path \in Seqs(Nodes, MaxPathLen) :
         /\ call' = [NoCall EXCEPT !.fn = "is_path_direct", !.path = path]
         /\ ret' = [NoRet EXCEPT !.path = is_path_direct(g, path)]
    /\ Untouched

Call_cut_executed_nodes ==
    /\ pc = "search"
    /\ \E path \in Seqs(Nodes, MaxPathLen) :
         /\ call' = [NoCall EXCEPT !.fn = "cut_executed_nodes", !.path = path]
         /\ ret' = [NoRet EXCEPT !.path = cut_executed_nodes(g, path).path,
                                 !.aborted = cut_executed_nodes(g, path).aborted]
    /\ Untouched

Call_find_execution_path ==
    /\ pc = "search"
    /\ \E node1, node2, last_dif_node \in Nodes, logged_nodes \in SUBSET Nodes :
         /\ call' = [NoCall EXCEPT !.fn = "find_execution_path", !.src = node1,
                                   !.dst = node2, !.last_dif = last_dif_node,
                                   !.logged = logged_nodes]
         /\ \E r \in find_execution_path(g, to_undirected(g), node1, node2,
                                         last_dif_node, logged_nodes) :
              ret' = [NoRet EXCEPT !.path = r.path, !.is_direct = r.is_direct,
                                   !.aborted = r.aborted]
    /\ Untouched

NextSearch ==
    \/ Call_k_shortest_paths
    \/ Call_is_path_direct
    \/ Call_cut_executed_nodes
    \/ Call_find_execution_path

SpecSearch == InitSearch /\ [][NextSearch]_vars

CalledGraph == IF call.undirected THEN to_undirected(g) ELSE g

IsDirectedWalk(E, path) ==
    \A k \in 1..(Len(path) - 1) : <<path[k], path[k + 1]>> \in E

\* C6: k_shortest_paths returns no path at all when no path from source to
\* target exists or an endpoint is not a node of the graph, and otherwise
\* between 1 and K distinct simple paths from source to target by ascending
\* length.
C6_NoPathGivesEmptyResult ==
    call.fn = "k_shortest_paths" =>
        IF SimplePaths(CalledGraph, call.src, call.dst) = {}
        THEN ret.paths = <<>>
        ELSE /\ Len(ret.paths) \in 1..K
             /\ \A k \in 1..Len(ret.paths) :
                    ret.paths[k] \in SimplePaths(CalledGraph, call.src, call.dst)
             /\ \A a, b \in 1..Len(ret.paths) :
                    a < b => /\ Len(ret.paths[a]) <= Len(ret.paths[b])
                             /\ ret.paths[a] # ret.paths[b]

\* C7: when the (possibly substituted) current node and the target are
\* connected in the undirected projection but by no directed path,
\* find_execution_path marks the search as indirect.
C7_NoDirectedPathMarksSearchIndirect ==
    LET start == IF call.src = call.dst THEN call.last_dif ELSE call.src
    IN  (/\ call.fn = "find_execution_path"
         /\ ~(call.src = call.dst /\ <<call.src, call.dst>> \in g)
         /\ SimplePaths(to_undirected(g), start, call.dst) # {}
         /\ SimplePaths(g, start, call.dst) = {})
        => ret.is_direct = FALSE

\* C8: for a path of length >= 2, is_path_direct returns the suffix that
\* starts at the last direction change when every consecutive pair of that
\* suffix is a directed edge, and the empty result exactly when some
\* consecutive pair of that suffix is not a directed edge.
C8_ReturnedSuffixIsForwardConsistent ==
    (call.fn = "is_path_direct" /\ Len(call.path) >= 2) =>
        LET suffix == SubSeq(call.path, dir_change_index(g, call.path) + 1,
                             Len(call.path))
        IN  ret.path = IF IsDirectedWalk(g, suffix) THEN suffix ELSE <<>>

\* C9: for a non-empty path, cut_executed_nodes returns the suffix starting
\* at the first node from which a directed path to the last node exists, and
\* aborts only if there is no such node.
C9_CutStartsAtFirstForwardReachableNode ==
    (call.fn = "cut_executed_nodes" /\ call.path # <<>>) =>
        LET reach == {k \in 1..Len(call.path) :
                         SimplePaths(g, call.path[k], Last(call.path)) # {}}
        IN  IF reach = {}
            THEN ret.aborted
            ELSE /\ ~ret.aborted
                 /\ ret.path = SubSeq(call.path, Min(reach), Len(call.path))

====
